---- MODULE Spec2Model ----
(***************************************************************************)
(* Verification model of gcal-sdk.                                         *)
(*                                                                         *)
(*   - auth.py      load_credentials / _save_token, as a step machine per  *)
(*                  caller over the token file and the app-registration    *)
(*                  file (specification Spec).                             *)
(*   - events.py / calendars.py   list and list_all against a paginating   *)
(*                  service (specifications SpecList, SpecListFair).       *)
(*   - events.py    create / patch and _build_event_body (SpecEvents).     *)
(*   - freebusy.py  query (SpecFreeBusy).                                   *)
(*   - models.py    EventDateTime validation and to_api_dict               *)
(*                  (SpecEventDateTime).                                   *)
(*                                                                         *)
(* JSON objects and Python dicts are functions from a set of keys (the     *)
(* keys present) to values; dict.get(k, d) is Get(d, k, default).  Python  *)
(* None is the string "None".                                              *)
(***************************************************************************)
EXTENDS Integers, Sequences, FiniteSets, TLC

VARIABLES
    tokenFile,     \* token_path on disk: [exists, content, mode]
    credFile,      \* credentials_path on disk: [exists, content]
    stale,         \* ground truth: the stored access token has outlived its lifetime
    issued,        \* number of access tokens the authorization server has issued
    pc,            \* per caller: position inside load_credentials
    token_data,    \* per caller: local token_data (auth.py:43)
    creds,         \* per caller: local creds
    site,          \* per caller: which call site of refresh/_save_token is active
    error,         \* per caller: the exception load_credentials raised, or "None"
    refreshCalls,  \* per caller: number of creds.refresh(Request()) calls made
    lastRefresh,   \* per caller: outcome of the latest creds.refresh call
    credReads,     \* per caller: number of reads of the app-registration file
    writes,        \* per caller: number of token_path.write_text calls
    \* ---- list / list_all (events.py, calendars.py)
    resource,      \* "events" or "calendars": whose list operation runs
    op,            \* "list", "list_all" or "instances" (events only)
    time_min,      \* argument time_min (events only)
    time_max,      \* argument time_max (events only)
    arg_page_token,\* argument page_token of list
    la_pc,         \* position: "idle", "call", "loop", "returned", "raised"
    page_token,    \* local page_token of list_all
    all_events,    \* local all_events / all_calendars of list_all
    kwargs,        \* the kwargs of the latest request sent to the service
    result,        \* the latest response received from the service
    nreq,          \* number of requests sent to the service
    served,        \* service side: every raw item served so far, in order
    list_ret,      \* the value the operation returned
    la_error,      \* the exception the operation raised, or "None"
    \* ---- events create / patch (events.py)
    ev_op,         \* "create" or "patch"
    ev_args,       \* the keyword arguments of the call
    ev_pc,         \* position: "idle", "call", "returned", "raised"
    ev_body,       \* local body after _build_event_body
    ev_request,    \* the requests sent to the service, in order
    ev_error,      \* the exception the operation raised, or "None"
    \* ---- freebusy query (freebusy.py)
    fb_args,       \* the arguments of the call
    fb_pc,         \* position: "idle", "call", "returned", "raised"
    fb_request,    \* the requests sent to the service, in order
    fb_result,     \* the response received from the service
    fb_ret,        \* the FreeBusyResponse returned
    fb_error,      \* the exception the operation raised, or "None"
    \* ---- EventDateTime (models.py)
    edt_args,      \* the fields given to the constructor
    edt_pc,        \* position: "idle", "call", "valid", "converted", "raised"
    edt_obj,       \* the validated object
    edt_dict,      \* the result of to_api_dict
    edt_error      \* the exception the constructor raised, or "None"

authVars == <<tokenFile, credFile, stale, issued, pc, token_data, creds, site,
              error, refreshCalls, lastRefresh, credReads, writes>>

listVars == <<resource, op, time_min, time_max, arg_page_token, la_pc, page_token,
              all_events, kwargs, result, nreq, served, list_ret, la_error>>

eventVars == <<ev_op, ev_args, ev_pc, ev_body, ev_request, ev_error>>

freeBusyVars == <<fb_args, fb_pc, fb_request, fb_result, fb_ret, fb_error>>

modelVars == <<edt_args, edt_pc, edt_obj, edt_dict, edt_error>>

vars == <<authVars, listVars, eventVars, freeBusyVars, modelVars>>

\* what each component leaves alone
nonAuthVars == <<listVars, eventVars, freeBusyVars, modelVars>>
nonListVars == <<authVars, eventVars, freeBusyVars, modelVars>>
nonEventVars == <<authVars, listVars, freeBusyVars, modelVars>>
nonFreeBusyVars == <<authVars, listVars, eventVars, modelVars>>
nonModelVars == <<authVars, listVars, eventVars, freeBusyVars>>

----------------------------------------------------------------------------
(* Dicts                                                                   *)

None == "None"

EmptyDict == [k \in {} |-> None]

\* dict.get(key, default)
Get(d, k, default) == IF k \in DOMAIN d THEN d[k] ELSE default

\* truthiness of a dict: non-empty
Truthy(d) == DOMAIN d # {}

----------------------------------------------------------------------------
(* auth.py                                                                 *)

\* SCOPES, auth.py:12 (the one-element default scope list, as a tag)
SCOPES == "calendar"

DefaultTokenUri == "https://oauth2.googleapis.com/token"

Callers == {1, 2}

\* The keys of the token file and the value each carries when present.
TokenKeys == {"token", "refresh_token", "token_uri", "client_id", "client_secret", "scopes"}

TokenFileValue(k) ==
    CASE k = "token"         -> "T0"
      [] k = "refresh_token" -> "R1"
      [] k = "token_uri"     -> "uri_tok"
      [] k = "client_id"     -> "C_tok"
      [] k = "client_secret" -> "S_tok"
      [] k = "scopes"        -> "custom_scopes"

TokenFileContents == {[k \in K |-> TokenFileValue(k)] : K \in SUBSET TokenKeys}

\* The entries of the app-registration file.
ClientInfoKeys == {"client_id", "client_secret", "token_uri"}

ClientInfos(tag) == {[k \in K |-> tag \o "_" \o k] : K \in SUBSET ClientInfoKeys}

CredFileContents ==
    {EmptyDict}
    \cup {[k \in {"installed"} |-> i] : i \in ClientInfos("installed")}
    \cup {[k \in {"web"} |-> w] : w \in ClientInfos("web")}
    \cup {[k \in {"installed", "web"} |-> IF k = "installed" THEN i ELSE w] :
             i \in ClientInfos("installed"), w \in ClientInfos("web")}

\* The access token the authorization server hands out on its n-th success.
IssuedToken(n) == <<"T1", "T2", "T3">>[n]

\* google.oauth2.credentials.Credentials(token=..., ...): no expiry is passed,
\* so the object starts with expiry None.
Credentials(token, refresh_token, token_uri, client_id, client_secret, scopes) ==
    [token |-> token, refresh_token |-> refresh_token, token_uri |-> token_uri,
     client_id |-> client_id, client_secret |-> client_secret, scopes |-> scopes,
     expiry |-> None]

NoCreds == Credentials(None, None, None, None, None, None)

\* creds.expired: False when the object carries no expiry, otherwise whether
\* the expiry has passed.  Only a successful refresh sets an expiry (a future
\* one); load_credentials never passes one to Credentials(...).
expired(c) == c.expiry # None /\ c.expiry = "past"

\* creds.valid: a token is held and it is not expired
valid(c) == c.token # None /\ ~expired(c)

\* an existence test that always passes
TokenPathExists_Always(f) == TRUE

\* auth.py:37  token_path.exists()
TokenPathExists(f) == f.exists

\* auth.py:56  the primary refresh guard
NeedsPrimaryRefresh(c) == expired(c) /\ c.refresh_token # None

\* a fallback guard that forgets to test creds.refresh_token
NeedsFallback_NoRefreshTokenTest(c, cf) == ~valid(c) /\ cf.exists

\* a fallback guard that forgets to test creds.valid
NeedsFallback_NoValidTest(c, cf) == c.refresh_token # None /\ cf.exists

\* auth.py:63  the fallback guard
NeedsFallback(c, cf) == ~valid(c) /\ c.refresh_token # None /\ cf.exists

\* a lookup that prefers the "web" entry
ClientInfo_WebFirst(cred_data) ==
    IF "web" \in DOMAIN cred_data /\ Truthy(cred_data["web"])
    THEN cred_data["web"]
    ELSE Get(cred_data, "installed", EmptyDict)

\* auth.py:66  cred_data.get("installed") or cred_data.get("web", {})
ClientInfo(cred_data) ==
    IF "installed" \in DOMAIN cred_data /\ Truthy(cred_data["installed"])
    THEN cred_data["installed"]
    ELSE Get(cred_data, "web", EmptyDict)

\* auth.py:86-93  the JSON document _save_token writes
SavedTokenData(c) ==
    [k \in TokenKeys |->
        CASE k = "token"         -> c.token
          [] k = "refresh_token" -> c.refresh_token
          [] k = "token_uri"     -> c.token_uri
          [] k = "client_id"     -> c.client_id
          [] k = "client_secret" -> c.client_secret
          [] k = "scopes"        -> IF c.scopes # None THEN c.scopes ELSE SCOPES]

\* creds.refresh can only succeed when the credential carries a refresh
\* token and a full client identity.
CanRefresh(c) ==
    c.refresh_token # None /\ c.client_id # None /\ c.client_secret # None
    /\ c.token_uri # None

InitAuthFiles ==
    /\ tokenFile \in
          {[exists |-> FALSE, content |-> EmptyDict, mode |-> "0600"]}
          \cup [exists : {TRUE}, content : TokenFileContents, mode : {"0600", "0644"}]
    /\ credFile \in
          {[exists |-> FALSE, content |-> EmptyDict]}
          \cup [exists : {TRUE}, content : CredFileContents]
    /\ stale \in (IF tokenFile.exists /\ "token" \in DOMAIN tokenFile.content
                  THEN BOOLEAN ELSE {FALSE})
    /\ issued = 0

InitAuthCallers(active) ==
    /\ pc = [p \in Callers |-> IF p \in active THEN "start" ELSE "idle"]
    /\ token_data = [p \in Callers |-> EmptyDict]
    /\ creds = [p \in Callers |-> NoCreds]
    /\ site = [p \in Callers |-> "none"]
    /\ error = [p \in Callers |-> None]
    /\ refreshCalls = [p \in Callers |-> 0]
    /\ lastRefresh = [p \in Callers |-> "none"]
    /\ credReads = [p \in Callers |-> 0]
    /\ writes = [p \in Callers |-> 0]

\* auth.py:37-41
CheckTokenFile(p) ==
    /\ pc[p] = "start"
    /\ IF TokenPathExists(tokenFile)
       THEN /\ pc' = [pc EXCEPT ![p] = "read_token"]
            /\ error' = error
       ELSE /\ pc' = [pc EXCEPT ![p] = "raised"]
            /\ error' = [error EXCEPT ![p] = "FileNotFoundError"]
    /\ UNCHANGED <<tokenFile, credFile, stale, issued, token_data, creds, site,
                   refreshCalls, lastRefresh, credReads, writes>>
    /\ UNCHANGED nonAuthVars

\* auth.py:43-53
ReadToken(p) ==
    /\ pc[p] = "read_token"
    /\ token_data' = [token_data EXCEPT ![p] = tokenFile.content]
    /\ creds' = [creds EXCEPT ![p] =
          Credentials(Get(tokenFile.content, "token", None),
                      Get(tokenFile.content, "refresh_token", None),
                      Get(tokenFile.content, "token_uri", DefaultTokenUri),
                      Get(tokenFile.content, "client_id", None),
                      Get(tokenFile.content, "client_secret", None),
                      Get(tokenFile.content, "scopes", SCOPES))]
    /\ pc' = [pc EXCEPT ![p] = "check_expired"]
    /\ UNCHANGED <<tokenFile, credFile, stale, issued, site, error,
                   refreshCalls, lastRefresh, credReads, writes>>
    /\ UNCHANGED nonAuthVars

\* auth.py:56
CheckExpired(p) ==
    /\ pc[p] = "check_expired"
    /\ IF NeedsPrimaryRefresh(creds[p])
       THEN /\ pc' = [pc EXCEPT ![p] = "refresh"]
            /\ site' = [site EXCEPT ![p] = "primary"]
       ELSE /\ pc' = [pc EXCEPT ![p] = "check_fallback"]
            /\ site' = site
    /\ UNCHANGED <<tokenFile, credFile, stale, issued, token_data, creds, error,
                   refreshCalls, lastRefresh, credReads, writes>>
    /\ UNCHANGED nonAuthVars

\* a refresh error that is caught and ignored
AfterRefreshError_Swallowed(p) ==
    /\ pc' = [pc EXCEPT ![p] = IF site[p] = "primary" THEN "check_fallback" ELSE "return"]
    /\ error' = error

\* What follows a creds.refresh that raised: nothing catches the exception.
AfterRefreshError(p) ==
    /\ pc' = [pc EXCEPT ![p] = "raised"]
    /\ error' = [error EXCEPT ![p] = "RefreshError"]

\* auth.py:57 and auth.py:78  creds.refresh(Request()): the server grants a
\* new access token or refuses; a refusal raises RefreshError.  The refresh
\* token is kept as it is.
Refresh(p) ==
    /\ pc[p] = "refresh"
    /\ refreshCalls' = [refreshCalls EXCEPT ![p] = @ + 1]
    /\ \E ok \in (IF CanRefresh(creds[p]) THEN BOOLEAN ELSE {FALSE}) :
          IF ok
          THEN /\ issued' = issued + 1
               /\ creds' = [creds EXCEPT ![p].token = IssuedToken(issued + 1),
                                         ![p].expiry = "future"]
               /\ lastRefresh' = [lastRefresh EXCEPT ![p] = "ok"]
               /\ pc' = [pc EXCEPT ![p] = "write_text"]
               /\ error' = error
          ELSE /\ issued' = issued
               /\ creds' = creds
               /\ lastRefresh' = [lastRefresh EXCEPT ![p] = "fail"]
               /\ AfterRefreshError(p)
    /\ UNCHANGED <<tokenFile, credFile, stale, token_data, site, credReads, writes>>
    /\ UNCHANGED nonAuthVars

\* auth.py:86-94  _save_token: token_path.write_text(json.dumps(token_data))
SaveToken_write_text(p) ==
    /\ pc[p] = "write_text"
    /\ tokenFile' = [tokenFile EXCEPT !.exists = TRUE,
                                      !.content = SavedTokenData(creds[p])]
    /\ writes' = [writes EXCEPT ![p] = @ + 1]
    /\ pc' = [pc EXCEPT ![p] = "chmod"]
    /\ UNCHANGED <<credFile, stale, issued, token_data, creds, site, error,
                   refreshCalls, lastRefresh, credReads>>
    /\ UNCHANGED nonAuthVars

\* auth.py:95  _save_token: token_path.chmod(0o600), then back to the call site
SaveToken_chmod(p) ==
    /\ pc[p] = "chmod"
    /\ tokenFile' = [tokenFile EXCEPT !.mode = "0600"]
    /\ pc' = [pc EXCEPT ![p] = IF site[p] = "primary" THEN "check_fallback" ELSE "return"]
    /\ UNCHANGED <<credFile, stale, issued, token_data, creds, site, error,
                   refreshCalls, lastRefresh, credReads, writes>>
    /\ UNCHANGED nonAuthVars

\* auth.py:63
CheckFallback(p) ==
    /\ pc[p] = "check_fallback"
    /\ pc' = [pc EXCEPT ![p] = IF NeedsFallback(creds[p], credFile)
                               THEN "read_cred" ELSE "return"]
    /\ UNCHANGED <<tokenFile, credFile, stale, issued, token_data, creds, site, error,
                   refreshCalls, lastRefresh, credReads, writes>>
    /\ UNCHANGED nonAuthVars

\* auth.py:64-77
ReadCredentialsFile(p) ==
    /\ pc[p] = "read_cred"
    /\ credReads' = [credReads EXCEPT ![p] = @ + 1]
    /\ LET client_info == ClientInfo(credFile.content)
       IN  IF Truthy(client_info)
           THEN /\ creds' = [creds EXCEPT ![p] =
                      Credentials(creds[p].token,
                                  creds[p].refresh_token,
                                  Get(client_info, "token_uri", DefaultTokenUri),
                                  Get(client_info, "client_id", None),
                                  Get(client_info, "client_secret", None),
                                  SCOPES)]
                /\ site' = [site EXCEPT ![p] = "fallback"]
                /\ pc' = [pc EXCEPT ![p] = "refresh"]
           ELSE /\ creds' = creds
                /\ site' = site
                /\ pc' = [pc EXCEPT ![p] = "return"]
    /\ UNCHANGED <<tokenFile, credFile, stale, issued, token_data, error,
                   refreshCalls, lastRefresh, writes>>
    /\ UNCHANGED nonAuthVars

\* auth.py:81
Return(p) ==
    /\ pc[p] = "return"
    /\ pc' = [pc EXCEPT ![p] = "returned"]
    /\ UNCHANGED <<tokenFile, credFile, stale, issued, token_data, creds, site, error,
                   refreshCalls, lastRefresh, credReads, writes>>
    /\ UNCHANGED nonAuthVars

load_credentials(p) ==
    \/ CheckTokenFile(p)
    \/ ReadToken(p)
    \/ CheckExpired(p)
    \/ Refresh(p)
    \/ SaveToken_write_text(p)
    \/ SaveToken_chmod(p)
    \/ CheckFallback(p)
    \/ ReadCredentialsFile(p)
    \/ Return(p)

----------------------------------------------------------------------------
(* events.py / calendars.py: list and list_all                             *)

\* Bounds of the service model: list_all is served at most MaxPages pages of
\* at most MaxItems items each.
MaxPages == 3
MaxItems == 1

\* An absent object-valued argument (Python None where a datetime may stand).
NoneObj == [kind |-> "None"]

\* datetime values: timezone-naive and timezone-aware, with their isoformat()
NaiveDateTime == [kind |-> "datetime", tzinfo |-> None, iso |-> "2026-01-01T09:00:00"]
AwareDateTime == [kind |-> "datetime", tzinfo |-> "UTC", iso |-> "2026-01-01T09:00:00+00:00"]
OptDateTimes == {NoneObj, NaiveDateTime, AwareDateTime}

\* events.py:403  _ensure_isoformat raises ValueError
Raises_ensure_isoformat(dt) == dt.tzinfo = None

\* events.py:408  _ensure_isoformat returns dt.isoformat()
ensure_isoformat(dt) == dt.iso

\* dict d with d[k] = v added or replaced
Put(d, k, v) == [x \in DOMAIN d \cup {k} |-> IF x = k THEN v ELSE d[x]]

\* events.py:27, calendars.py:26 and calendars.py:70  the default page size
DefaultMaxResults == 250

\* events.py:41-44  _build_list_kwargs raises before building anything
Raises_build_list_kwargs(tmin, tmax) ==
    \/ tmin # NoneObj /\ Raises_ensure_isoformat(tmin)
    \/ tmax # NoneObj /\ Raises_ensure_isoformat(tmax)

\* kwargs that never carry the cursor
WithPageToken_Never(kw, tok) == kw

\* "pageToken" is sent exactly when page_token is not None
WithPageToken(kw, tok) == IF tok # None THEN Put(kw, "pageToken", tok) ELSE kw

\* events.py:21-51  _build_list_kwargs, with calendar_id, max_results,
\* single_events, order_by, q and show_deleted at their defaults
build_list_kwargs(tmin, tmax, tok) ==
    LET k0 == [calendarId |-> "primary", maxResults |-> DefaultMaxResults,
               singleEvents |-> TRUE, showDeleted |-> FALSE]
        k1 == IF tmin # NoneObj THEN Put(k0, "timeMin", ensure_isoformat(tmin)) ELSE k0
        k2 == IF tmax # NoneObj THEN Put(k1, "timeMax", ensure_isoformat(tmax)) ELSE k1
        k3 == Put(k2, "orderBy", "startTime")
    IN  WithPageToken(k3, tok)

\* events.py:352-355  instances raises before any request
Raises_instances_kwargs(tmin, tmax) ==
    \/ tmin # NoneObj /\ Raises_ensure_isoformat(tmin)
    \/ tmax # NoneObj /\ Raises_ensure_isoformat(tmax)

\* events.py:347-355  the kwargs of instances
instances_kwargs(tmin, tmax) ==
    LET k0 == [calendarId |-> "primary", eventId |-> "ev1",
               maxResults |-> DefaultMaxResults]
        k1 == IF tmin # NoneObj THEN Put(k0, "timeMin", ensure_isoformat(tmin)) ELSE k0
    IN  IF tmax # NoneObj THEN Put(k1, "timeMax", ensure_isoformat(tmax)) ELSE k1

\* calendars.py:40-46 and calendars.py:67-73
calendar_list_kwargs(tok) ==
    WithPageToken([showDeleted |-> FALSE, showHidden |-> FALSE,
                   maxResults |-> DefaultMaxResults], tok)

\* The raw JSON items the service serves, and the pages it can return.
RawItems == {[id |-> "a"], [id |-> "b"]}
ItemLists == UNION {[1..n -> RawItems] : n \in 0..MaxItems}
Cursors == {"p2", "p3"}

ServiceResults ==
    {EmptyDict}
    \cup {[k \in {"items"} |-> it] : it \in ItemLists}
    \cup {[k \in {"nextPageToken"} |-> c] : c \in Cursors \cup {""}}
    \cup {[k \in {"items", "nextPageToken"} |-> IF k = "items" THEN it ELSE c] :
             it \in ItemLists, c \in Cursors \cup {""}}

\* models.py:87-90 and 117-120  from_api_response: the typed record of an item
\* (Calendar.primary defaults to False)
from_api_response(res, item) ==
    IF res = "events"
    THEN [model |-> "Event", id |-> Get(item, "id", None)]
    ELSE [model |-> "Calendar", id |-> Get(item, "id", None),
          primary |-> Get(item, "primary", FALSE)]

\* a reading of the page that puts a placeholder where items is missing
ItemsOf_Placeholder(r) == IF "items" \in DOMAIN r THEN r["items"] ELSE <<[id |-> "?"]>>

\* result.get("items", [])
ItemsOf(r) == Get(r, "items", <<>>)

\* [X.from_api_response(item) for item in items]
Decode(res, items) == [i \in 1..Len(items) |-> from_api_response(res, items[i])]

\* an accumulator that keeps only the latest page
Extend_KeepLatest(all, new) == new

\* all_events.extend(...)
Extend(all, new) == all \o new

\* a loop test `page_token is None`, which lets the empty cursor through
Falsy_OnlyNone(tok) == tok = None

\* `not page_token`: None and the empty string end the loop
Falsy(tok) == tok = None \/ tok = ""

\* a list that also hands back the cursor
ListReturn_WithCursor(r, records) ==
    [items |-> records, next_cursor |-> Get(r, "nextPageToken", None)]

\* events.py:97 and calendars.py:50  what list returns: the list of records
\* (held under "items"; the returned value has no other component)
ListReturn(r, records) == [items |-> records]

\* a response that announces no further page: cursor absent or empty
NoCursor(r) == "nextPageToken" \notin DOMAIN r \/ r["nextPageToken"] = ""

\* the pages a service may answer the (n+1)-th request of list_all with: it
\* ends the listing at the latest on page MaxPages
PagesFor(n) ==
    IF n + 1 < MaxPages THEN ServiceResults
    ELSE {r \in ServiceResults : NoCursor(r)}

\* list_all gives up the model run after this many requests (never reached
\* by the loop as written)
MaxRequests == MaxPages + 2

InitListCall ==
    /\ resource \in {"events", "calendars"}
    /\ op \in (IF resource = "events" THEN {"list", "list_all", "instances"}
               ELSE {"list", "list_all"})
    /\ time_min \in (IF resource = "events" THEN OptDateTimes ELSE {NoneObj})
    /\ time_max \in (IF resource = "events" THEN OptDateTimes ELSE {NoneObj})
    /\ arg_page_token \in (IF op = "list" THEN {None, ""} \cup Cursors ELSE {None})
    /\ la_pc = "call"
    /\ page_token = None
    /\ all_events = <<>>
    /\ kwargs = EmptyDict
    /\ result = EmptyDict
    /\ nreq = 0
    /\ served = <<>>
    /\ list_ret = [items |-> <<>>]
    /\ la_error = None

IdleList ==
    /\ resource = "events"
    /\ op = "list"
    /\ time_min = NoneObj
    /\ time_max = NoneObj
    /\ arg_page_token = None
    /\ la_pc = "idle"
    /\ page_token = None
    /\ all_events = <<>>
    /\ kwargs = EmptyDict
    /\ result = EmptyDict
    /\ nreq = 0
    /\ served = <<>>
    /\ list_ret = [items |-> <<>>]
    /\ la_error = None

\* events.py:53-97 and calendars.py:21-50  list: one page
List ==
    /\ la_pc = "call"
    /\ op = "list"
    /\ IF resource = "events" /\ Raises_build_list_kwargs(time_min, time_max)
       THEN /\ la_pc' = "raised"
            /\ la_error' = "ValueError"
            /\ UNCHANGED <<kwargs, result, nreq, served, list_ret>>
       ELSE /\ kwargs' = IF resource = "events"
                         THEN build_list_kwargs(time_min, time_max, arg_page_token)
                         ELSE calendar_list_kwargs(arg_page_token)
            /\ \E r \in ServiceResults :
                  /\ result' = r
                  /\ served' = served \o ItemsOf(r)
                  /\ list_ret' = ListReturn(r, Decode(resource, ItemsOf(r)))
            /\ nreq' = nreq + 1
            /\ la_pc' = "returned"
            /\ la_error' = la_error
    /\ UNCHANGED <<resource, op, time_min, time_max, arg_page_token, page_token, all_events>>
    /\ UNCHANGED nonListVars

\* events.py:326-359  instances: one page of a recurring event's instances
Instances ==
    /\ la_pc = "call"
    /\ op = "instances"
    /\ IF Raises_instances_kwargs(time_min, time_max)
       THEN /\ la_pc' = "raised"
            /\ la_error' = "ValueError"
            /\ UNCHANGED <<kwargs, result, nreq, served, list_ret>>
       ELSE /\ kwargs' = instances_kwargs(time_min, time_max)
            /\ \E r \in ServiceResults :
                  /\ result' = r
                  /\ served' = served \o ItemsOf(r)
                  /\ list_ret' = ListReturn(r, Decode(resource, ItemsOf(r)))
            /\ nreq' = nreq + 1
            /\ la_pc' = "returned"
            /\ la_error' = la_error
    /\ UNCHANGED <<resource, op, time_min, time_max, arg_page_token, page_token, all_events>>
    /\ UNCHANGED nonListVars

\* events.py:117-118 and calendars.py:63-64
ListAllStart ==
    /\ la_pc = "call"
    /\ op = "list_all"
    /\ all_events' = <<>>
    /\ page_token' = None
    /\ la_pc' = "loop"
    /\ UNCHANGED <<resource, op, time_min, time_max, arg_page_token, kwargs, result,
                   nreq, served, list_ret, la_error>>
    /\ UNCHANGED nonListVars

\* events.py:120-140 and calendars.py:66-83  one iteration of the loop, and
\* the return when it breaks
ListAllPage ==
    /\ la_pc = "loop"
    /\ nreq < MaxRequests
    /\ IF resource = "events" /\ Raises_build_list_kwargs(time_min, time_max)
       THEN /\ la_pc' = "raised"
            /\ la_error' = "ValueError"
            /\ UNCHANGED <<page_token, all_events, kwargs, result, nreq, served, list_ret>>
       ELSE /\ kwargs' = IF resource = "events"
                         THEN build_list_kwargs(time_min, time_max, page_token)
                         ELSE calendar_list_kwargs(page_token)
            /\ nreq' = nreq + 1
            /\ la_error' = la_error
            /\ \E r \in PagesFor(nreq) :
                  /\ result' = r
                  /\ served' = served \o ItemsOf(r)
                  /\ all_events' = Extend(all_events, Decode(resource, ItemsOf(r)))
                  /\ page_token' = Get(r, "nextPageToken", None)
                  /\ IF Falsy(Get(r, "nextPageToken", None))
                     THEN /\ la_pc' = "returned"
                          /\ list_ret' = [items |-> all_events']
                     ELSE /\ la_pc' = "loop"
                          /\ list_ret' = list_ret
    /\ UNCHANGED <<resource, op, time_min, time_max, arg_page_token>>
    /\ UNCHANGED nonListVars

NextList == List \/ Instances \/ ListAllStart \/ ListAllPage

----------------------------------------------------------------------------
(* events.py: create, patch and _build_event_body                          *)

\* Optional list and dict arguments carry a tag, so that None, a list and a
\* dict are told apart as isinstance and `is not None` tell them apart.
ListObj(xs) == [kind |-> "list", value |-> xs]
DictObj(d) == [kind |-> "dict", value |-> d]
StrObj(x) == [kind |-> "str", value |-> x]

\* models.py:9-26  EventDateTime objects that passed validation
AllDay == [kind |-> "EventDateTime", date |-> "2026-01-02", date_time |-> NoneObj,
           time_zone |-> None]
Timed  == [kind |-> "EventDateTime", date |-> None, date_time |-> AwareDateTime,
           time_zone |-> "Europe/Paris"]

\* models.py:28-37  EventDateTime.to_api_dict
to_api_dict(e) ==
    LET r0 == EmptyDict
        r1 == IF e.date # None THEN Put(r0, "date", e.date) ELSE r0
        r2 == IF e.date_time # NoneObj THEN Put(r1, "dateTime", e.date_time.iso) ELSE r1
    IN  IF e.time_zone # None THEN Put(r2, "timeZone", e.time_zone) ELSE r2

\* a conversion that forgets the timezone test
Raises_to_event_datetime_Never(value) == FALSE

\* events.py:419  _to_event_datetime raises ValueError
Raises_to_event_datetime(value) ==
    value.kind # "EventDateTime" /\ value.tzinfo = None

\* events.py:411-427  _to_event_datetime
to_event_datetime(value, tz) ==
    IF value.kind = "EventDateTime" THEN to_api_dict(value)
    ELSE LET r == [dateTime |-> value.iso]
         IN  IF tz # None THEN Put(r, "timeZone", tz) ELSE r

\* a truthiness test `if body:`, which drops an empty override
HasBodyOverride_Truthy(a) == a.body # NoneObj /\ Truthy(a.body.value)

\* events.py:378  the body override is taken whenever it is not None
HasBodyOverride(a) == a.body # NoneObj

\* events.py:378-391  _build_event_body raises ValueError
Raises_build_event_body(a) ==
    /\ ~HasBodyOverride(a)
    /\ \/ a.start # NoneObj /\ Raises_to_event_datetime(a.start)
       \/ a.end # NoneObj /\ Raises_to_event_datetime(a.end)

\* a normalization that hands the attendees back in reverse order
NormalizeAttendees_Reversed(xs) ==
    [i \in 1..Len(xs) |->
        IF xs[Len(xs) + 1 - i].kind = "str" THEN [email |-> xs[Len(xs) + 1 - i].value]
        ELSE xs[Len(xs) + 1 - i].value]

\* events.py:393-395  bare strings become {"email": a}
NormalizeAttendees(xs) ==
    [i \in 1..Len(xs) |-> IF xs[i].kind = "str" THEN [email |-> xs[i].value]
                          ELSE xs[i].value]

\* a body that carries a null description when none was supplied
build_event_body_NullDescription(a) ==
    IF HasBodyOverride(a) THEN a.body.value
    ELSE
      LET r0 == EmptyDict
          r1 == IF a.summary # None THEN Put(r0, "summary", a.summary) ELSE r0
          r2 == Put(r1, "description", a.description)
          r3 == IF a.location # None THEN Put(r2, "location", a.location) ELSE r2
          r4 == IF a.start # NoneObj
                THEN Put(r3, "start", to_event_datetime(a.start, a.time_zone)) ELSE r3
          r5 == IF a.end # NoneObj
                THEN Put(r4, "end", to_event_datetime(a.end, a.time_zone)) ELSE r4
          r6 == IF a.attendees # NoneObj
                THEN Put(r5, "attendees", NormalizeAttendees(a.attendees.value)) ELSE r5
      IN  IF a.recurrence # NoneObj THEN Put(r6, "recurrence", a.recurrence.value) ELSE r6

\* events.py:362-398  _build_event_body
build_event_body(a) ==
    IF HasBodyOverride(a) THEN a.body.value
    ELSE
      LET r0 == EmptyDict
          r1 == IF a.summary # None THEN Put(r0, "summary", a.summary) ELSE r0
          r2 == IF a.description # None THEN Put(r1, "description", a.description) ELSE r1
          r3 == IF a.location # None THEN Put(r2, "location", a.location) ELSE r2
          r4 == IF a.start # NoneObj
                THEN Put(r3, "start", to_event_datetime(a.start, a.time_zone)) ELSE r3
          r5 == IF a.end # NoneObj
                THEN Put(r4, "end", to_event_datetime(a.end, a.time_zone)) ELSE r4
          r6 == IF a.attendees # NoneObj
                THEN Put(r5, "attendees", NormalizeAttendees(a.attendees.value)) ELSE r5
      IN  IF a.recurrence # NoneObj THEN Put(r6, "recurrence", a.recurrence.value) ELSE r6

\* The arguments a caller may pass to create and patch.
EventTimes == {NoneObj, NaiveDateTime, AwareDateTime, AllDay}
AttendeeStr == StrObj("ann@example.com")
AttendeeDict == DictObj([email |-> "bob@example.com", optional |-> TRUE])
AttendeeLists ==
    {NoneObj, ListObj(<<>>), ListObj(<<AttendeeStr>>), ListObj(<<AttendeeDict>>),
     ListObj(<<AttendeeStr, AttendeeDict>>), ListObj(<<AttendeeDict, AttendeeStr>>)}
BodyOverrides ==
    {NoneObj, DictObj(EmptyDict), DictObj([summary |-> "Override"]),
     DictObj([summary |-> "All Day Test", start |-> [date |-> "2026-01-02"],
              end |-> [date |-> "2026-01-03"]])}

EventArgs ==
    [summary : {None, "Title"}, description : {None, "Text"}, location : {None, "Room"},
     start : EventTimes, end : EventTimes, time_zone : {None, "America/Denver"},
     attendees : AttendeeLists,
     recurrence : {NoneObj, ListObj(<<"RRULE:FREQ=DAILY">>)},
     body : BodyOverrides]

NoEventArgs ==
    [summary |-> None, description |-> None, location |-> None, start |-> NoneObj,
     end |-> NoneObj, time_zone |-> None, attendees |-> NoneObj,
     recurrence |-> NoneObj, body |-> NoneObj]

InitEventCall ==
    /\ ev_op \in {"create", "patch"}
    /\ ev_args \in EventArgs
    /\ ev_pc = "call"
    /\ ev_body = EmptyDict
    /\ ev_request = <<>>
    /\ ev_error = None

IdleEvents ==
    /\ ev_op = "create"
    /\ ev_args = NoEventArgs
    /\ ev_pc = "idle"
    /\ ev_body = EmptyDict
    /\ ev_request = <<>>
    /\ ev_error = None

\* events.py:191-204 (create) and events.py:263-280 (patch): build the body,
\* then send one insert / patch request carrying it
SendEvent(method) ==
    /\ ev_pc = "call"
    /\ ev_op = method
    /\ IF Raises_build_event_body(ev_args)
       THEN /\ ev_pc' = "raised"
            /\ ev_error' = "ValueError"
            /\ UNCHANGED <<ev_body, ev_request>>
       ELSE /\ ev_body' = build_event_body(ev_args)
            /\ ev_request' = Append(ev_request,
                  [method |-> IF method = "create" THEN "insert" ELSE "patch",
                   body |-> build_event_body(ev_args)])
            /\ ev_pc' = "returned"
            /\ ev_error' = ev_error
    /\ UNCHANGED <<ev_op, ev_args>>
    /\ UNCHANGED nonEventVars

\* events.py:157-204
Create == SendEvent("create")

\* events.py:230-280
Patch == SendEvent("patch")

NextEvents == Create \/ Patch

----------------------------------------------------------------------------
(* freebusy.py: query                                                      *)

IntObj(n) == [kind |-> "int", value |-> n]

\* a guard that looks at time_min only
Raises_query_MinOnly(tmin, tmax) == tmin.tzinfo = None

\* freebusy.py:49  query raises ValueError
Raises_query(tmin, tmax) == tmin.tzinfo = None \/ tmax.tzinfo = None

\* freebusy.py:54-64  the request body
query_body(a) ==
    LET b0 == [timeMin |-> a.time_min.iso, timeMax |-> a.time_max.iso,
               items |-> [i \in 1..Len(a.calendar_ids) |-> [id |-> a.calendar_ids[i]]]]
        b1 == IF a.time_zone # None THEN Put(b0, "timeZone", a.time_zone) ELSE b0
        b2 == IF a.group_expansion_max # NoneObj
              THEN Put(b1, "groupExpansionMax", a.group_expansion_max.value) ELSE b1
    IN  IF a.calendar_expansion_max # NoneObj
        THEN Put(b2, "calendarExpansionMax", a.calendar_expansion_max.value) ELSE b2

\* The calendars a caller asks about and the service answers about.
CalendarIds == {"cal1", "cal2"}

FreeBusyArgs ==
    [calendar_ids : {<<"cal1">>, <<"cal2">>, <<"cal1", "cal2">>},
     time_min : {NaiveDateTime, AwareDateTime},
     time_max : {NaiveDateTime, AwareDateTime},
     time_zone : {None, "America/Denver"},
     group_expansion_max : {NoneObj, IntObj(10)},
     calendar_expansion_max : {NoneObj, IntObj(20)}]

NoFreeBusyArgs ==
    [calendar_ids |-> <<>>, time_min |-> AwareDateTime, time_max |-> AwareDateTime,
     time_zone |-> None, group_expansion_max |-> NoneObj,
     calendar_expansion_max |-> NoneObj]

\* What the service may say about one calendar: a busy list, an errors list,
\* both or neither.
RawBusyPeriod == [start |-> "2026-01-01T10:00:00Z", end |-> "2026-01-01T11:00:00Z"]
RawError == [domain |-> "global", reason |-> "notFound"]
BusyLists == {<<>>, <<RawBusyPeriod>>}
CalendarEntries ==
    {EmptyDict}
    \cup {[k \in {"busy"} |-> b] : b \in BusyLists}
    \cup {[k \in {"errors"} |-> <<RawError>>]}
    \cup {[k \in {"busy", "errors"} |-> IF k = "busy" THEN b ELSE <<RawError>>] :
             b \in BusyLists}

\* The responses of the service: "calendars" may be missing, and may cover
\* any part of the calendars.
FreeBusyResults ==
    {[kind |-> "calendar#freeBusy"]}
    \cup {[kind |-> "calendar#freeBusy", calendars |-> cals] :
             cals \in UNION {[K -> CalendarEntries] : K \in SUBSET CalendarIds}}

\* models.py:123-127  BusyPeriod
BusyPeriod(p) == [model |-> "BusyPeriod", start |-> p.start, end |-> p.end]

\* models.py:130-134  CalendarFreeBusy: busy defaults to [], errors to None
CalendarFreeBusy(e) ==
    [busy |-> LET b == Get(e, "busy", <<>>) IN [i \in 1..Len(b) |-> BusyPeriod(b[i])],
     errors |-> IF "errors" \in DOMAIN e THEN ListObj(e["errors"]) ELSE NoneObj]

\* a parse that leaves out the calendars the service reported errors for
ParseCalendars_DropErrored(cals) ==
    [c \in {x \in DOMAIN cals : "errors" \notin DOMAIN cals[x]} |->
        CalendarFreeBusy(cals[c])]

\* models.py:143  calendars: dict[str, CalendarFreeBusy]
ParseCalendars(cals) == [c \in DOMAIN cals |-> CalendarFreeBusy(cals[c])]

\* models.py:137-150  FreeBusyResponse.from_api_response
FreeBusyResponse(r) ==
    [kind |-> Get(r, "kind", None),
     calendars |-> ParseCalendars(Get(r, "calendars", EmptyDict))]

NoFreeBusyResponse == [kind |-> None, calendars |-> EmptyDict]

InitFreeBusyCall ==
    /\ fb_args \in FreeBusyArgs
    /\ fb_pc = "call"
    /\ fb_request = <<>>
    /\ fb_result = EmptyDict
    /\ fb_ret = NoFreeBusyResponse
    /\ fb_error = None

IdleFreeBusy ==
    /\ fb_args = NoFreeBusyArgs
    /\ fb_pc = "idle"
    /\ fb_request = <<>>
    /\ fb_result = EmptyDict
    /\ fb_ret = NoFreeBusyResponse
    /\ fb_error = None

\* freebusy.py:21-67  query
Query ==
    /\ fb_pc = "call"
    /\ IF Raises_query(fb_args.time_min, fb_args.time_max)
       THEN /\ fb_pc' = "raised"
            /\ fb_error' = "ValueError"
            /\ UNCHANGED <<fb_request, fb_result, fb_ret>>
       ELSE /\ fb_request' = Append(fb_request, [body |-> query_body(fb_args)])
            /\ \E r \in FreeBusyResults :
                  /\ fb_result' = r
                  /\ fb_ret' = FreeBusyResponse(r)
            /\ fb_pc' = "returned"
            /\ fb_error' = fb_error
    /\ UNCHANGED fb_args
    /\ UNCHANGED nonFreeBusyVars

NextFreeBusy == Query

----------------------------------------------------------------------------
(* models.py: EventDateTime                                                *)

AwareDateTime2 == [kind |-> "datetime", tzinfo |-> "UTC", iso |-> "2026-01-05T17:30:00+00:00"]

EventDateTimeArgs ==
    [date : {None, "2026-01-02", "2026-01-03", "2026-12-31"},
     date_time : {NoneObj, NaiveDateTime, AwareDateTime, AwareDateTime2},
     time_zone : {None, "Europe/Paris", "America/Denver"}]

NoEventDateTimeArgs == [date |-> None, date_time |-> NoneObj, time_zone |-> None]

\* models.py:22-26  check_date_or_datetime raises
Raises_check_date_or_datetime(a) == a.date = None /\ a.date_time = NoneObj

\* models.py:9-26  the validated object
EventDateTime(a) ==
    [kind |-> "EventDateTime", date |-> a.date, date_time |-> a.date_time,
     time_zone |-> a.time_zone]

InitEventDateTimeCall ==
    /\ edt_args \in EventDateTimeArgs
    /\ edt_pc = "call"
    /\ edt_obj = EventDateTime(NoEventDateTimeArgs)
    /\ edt_dict = EmptyDict
    /\ edt_error = None

IdleModels ==
    /\ edt_args = NoEventDateTimeArgs
    /\ edt_pc = "idle"
    /\ edt_obj = EventDateTime(NoEventDateTimeArgs)
    /\ edt_dict = EmptyDict
    /\ edt_error = None

\* models.py:16-26  EventDateTime(...): field assignment, then the validator
Construct ==
    /\ edt_pc = "call"
    /\ IF Raises_check_date_or_datetime(edt_args)
       THEN /\ edt_pc' = "raised"
            /\ edt_error' = "ValidationError"
            /\ edt_obj' = edt_obj
       ELSE /\ edt_pc' = "valid"
            /\ edt_error' = edt_error
            /\ edt_obj' = EventDateTime(edt_args)
    /\ UNCHANGED <<edt_args, edt_dict>>
    /\ UNCHANGED nonModelVars

\* models.py:28-37  to_api_dict on a validated object
ToApiDict ==
    /\ edt_pc = "valid"
    /\ edt_dict' = to_api_dict(edt_obj)
    /\ edt_pc' = "converted"
    /\ UNCHANGED <<edt_args, edt_obj, edt_error>>
    /\ UNCHANGED nonModelVars

NextEventDateTime == Construct \/ ToApiDict

IdleAuth ==
    /\ tokenFile = [exists |-> FALSE, content |-> EmptyDict, mode |-> "0600"]
    /\ credFile = [exists |-> FALSE, content |-> EmptyDict]
    /\ stale = FALSE
    /\ issued = 0
    /\ InitAuthCallers({})

\* One caller invokes load_credentials once.
Init ==
    InitAuthFiles /\ InitAuthCallers({1}) /\ IdleList /\ IdleEvents /\ IdleFreeBusy
    /\ IdleModels

Next == \E p \in Callers : load_credentials(p)

Spec == Init /\ [][Next]_vars

\* Two callers invoke load_credentials concurrently on the same files; their
\* steps interleave freely (nothing in auth.py takes a lock).
InitConc ==
    InitAuthFiles /\ InitAuthCallers({1, 2}) /\ IdleList /\ IdleEvents /\ IdleFreeBusy
    /\ IdleModels

SpecConc == InitConc /\ [][Next]_vars

\* One call of list or list_all, on events or calendars.
InitList == IdleAuth /\ InitListCall /\ IdleEvents /\ IdleFreeBusy /\ IdleModels

SpecList == InitList /\ [][NextList]_vars

\* The call is synchronous: it keeps running while the service answers.
SpecListFair == SpecList /\ WF_vars(NextList)

\* One call of events create or patch.
InitEvents == IdleAuth /\ IdleList /\ InitEventCall /\ IdleFreeBusy /\ IdleModels

SpecEvents == InitEvents /\ [][NextEvents]_vars

\* One call of the events client: list, list_all, instances, create or patch.
InitEventsClient ==
    /\ IdleAuth
    /\ \/ InitListCall /\ resource = "events" /\ IdleEvents
       \/ IdleList /\ InitEventCall
    /\ IdleFreeBusy
    /\ IdleModels

NextEventsClient == NextList \/ NextEvents

SpecEventsClient == InitEventsClient /\ [][NextEventsClient]_vars

\* One freebusy query.
InitFreeBusy == IdleAuth /\ IdleList /\ IdleEvents /\ InitFreeBusyCall /\ IdleModels

SpecFreeBusy == InitFreeBusy /\ [][NextFreeBusy]_vars

\* One EventDateTime is constructed and, when valid, converted.
InitEventDateTime ==
    IdleAuth /\ IdleList /\ IdleEvents /\ IdleFreeBusy /\ InitEventDateTimeCall

SpecEventDateTime == InitEventDateTime /\ [][NextEventDateTime]_vars

----------------------------------------------------------------------------
(* Properties                                                              *)

Done(p) == pc[p] \in {"returned", "raised"}

\* The token file the caller read held an access token / a refresh token.
HadToken(p) == "token" \in DOMAIN token_data[p]
HadRefreshToken(p) == "refresh_token" \in DOMAIN token_data[p]

\* The token file holds exactly what _save_token writes for creds[p].
Persisted(p) == tokenFile.exists /\ tokenFile.content = SavedTokenData(creds[p])

\* C1: a call of load_credentials on a token file whose access token is
\* expired and whose refresh token is present makes exactly one refresh call,
\* and when it returns the refreshed token is in the token file with mode 0600.
C1_ExpiredTokenRefreshedOnce ==
    \A p \in Callers :
        (Done(p) /\ HadToken(p) /\ stale /\ HadRefreshToken(p))
        => /\ refreshCalls[p] = 1
           /\ pc[p] = "returned" =>
                 /\ lastRefresh[p] = "ok"
                 /\ writes[p] = 1
                 /\ Persisted(p)
                 /\ tokenFile.mode = "0600"

\* C2: when the token file holds a valid access token (present, not expired),
\* load_credentials makes no refresh call at all, primary or fallback, and
\* the authorization server issues nothing.
C2_ValidTokenNoNetwork ==
    \A p \in Callers :
        (HadToken(p) /\ ~stale) => (refreshCalls[p] = 0 /\ issued = 0)

C2_Witness ==
    /\ pc[1] = "returned"
    /\ HadToken(1) /\ ~stale /\ HadRefreshToken(1)
    /\ credFile.exists /\ Truthy(ClientInfo(credFile.content))

\* C3: while the token file does not exist, a call can only end by raising
\* FileNotFoundError, and it has not read the app-registration file, made a
\* refresh call or written a file.
C3_MissingTokenFileRaises ==
    ~tokenFile.exists =>
        \A p \in Callers :
            /\ pc[p] \in {"idle", "start", "raised"}
            /\ pc[p] = "raised" => error[p] = "FileNotFoundError"
            /\ credReads[p] = 0 /\ refreshCalls[p] = 0 /\ writes[p] = 0

C3_Witness ==
    /\ ~tokenFile.exists
    /\ pc[1] = "raised" /\ error[1] = "FileNotFoundError"
    /\ credFile.exists /\ Truthy(ClientInfo(credFile.content))

\* C4: load_credentials never returns a credential without a valid access
\* token: whenever it returns, creds.valid holds.
C4_NeverReturnsUnusable ==
    \A p \in Callers : pc[p] = "returned" => valid(creds[p])

\* C5: once a refresh exchange has failed, load_credentials has raised that
\* RefreshError: it is not at any later step and has returned nothing.
C5_RefreshFailurePropagates ==
    \A p \in Callers :
        lastRefresh[p] = "fail" =>
            /\ pc[p] = "raised"
            /\ error[p] = "RefreshError"
            /\ writes[p] = 0

C5_Witness ==
    /\ lastRefresh[1] = "fail"
    /\ site[1] = "fallback"
    /\ CanRefresh(creds[1])
    /\ pc[1] = "raised"

\* C6: when list_all returns, its result is the records of every item the
\* service served over all pages, in the order served.
C6_ListAllConcatenatesPages ==
    (op = "list_all" /\ la_pc = "returned")
    => list_ret.items = Decode(resource, served)

C6_Witness ==
    /\ op = "list_all" /\ la_pc = "returned"
    /\ nreq = 3
    /\ Len(list_ret.items) = 3
    /\ list_ret.items[1].id # list_ret.items[2].id

\* C7: every request of list_all follows the cursor protocol: the first
\* carries no pageToken; each later one is sent only after a response with a
\* non-empty cursor and carries exactly that cursor.
C7_CursorProtocol ==
    [][(op = "list_all" /\ nreq' = nreq + 1) =>
          /\ nreq = 0 => "pageToken" \notin DOMAIN kwargs'
          /\ nreq > 0 =>
                /\ "nextPageToken" \in DOMAIN result
                /\ result["nextPageToken"] # ""
                /\ "pageToken" \in DOMAIN kwargs'
                /\ kwargs'["pageToken"] = result["nextPageToken"]]_vars

C7_Witness ==
    /\ op = "list_all"
    /\ nreq = 3
    /\ "pageToken" \in DOMAIN kwargs /\ kwargs["pageToken"] = "p3"
    /\ la_pc = "returned"

\* The latest response of list_all carried an absent or empty cursor.
LastPageSeen == op = "list_all" /\ nreq > 0 /\ NoCursor(result)

\* C8: as soon as a response carries an absent or empty cursor list_all has
\* returned, having sent one request per page (at most MaxPages); and a
\* running list_all always gets there.
C8_ListAllTerminates ==
    /\ [](LastPageSeen => (la_pc = "returned" /\ nreq <= MaxPages))
    /\ []((op = "list_all" /\ la_pc = "returned") => LastPageSeen)
    /\ ((op = "list_all" /\ la_pc = "loop") ~> (la_pc \in {"returned", "raised"}))

C8_Witness ==
    /\ op = "list_all" /\ la_pc = "returned"
    /\ nreq = 3
    /\ "nextPageToken" \in DOMAIN result /\ result["nextPageToken"] = ""

\* C9 (as claimed): list returns the page's items together with the cursor
\* the service returned.
C9_ListReturnsItemsAndCursor ==
    (op = "list" /\ la_pc = "returned")
    => /\ list_ret.items = Decode(resource, ItemsOf(result))
       /\ "next_cursor" \in DOMAIN list_ret
       /\ list_ret["next_cursor"] = Get(result, "nextPageToken", None)

\* C9 (amended): list returns the records of the page's items, in order, and
\* nothing else: the cursor the service returned is not part of the result.
C9_ListReturnsItemsOnly ==
    (op = "list" /\ la_pc = "returned")
    => list_ret = [items |-> Decode(resource, ItemsOf(result))]

C9_Witness ==
    /\ op = "list" /\ la_pc = "returned"
    /\ "nextPageToken" \in DOMAIN result /\ result["nextPageToken"] = "p2"
    /\ Len(list_ret.items) = 1

\* C10: a create or patch call given a body override sends exactly one
\* request whose body is the override, whatever convenience fields came
\* with it.
C10_BodyOverrideWins ==
    (ev_pc # "call" /\ ev_args.body # NoneObj)
    => /\ ev_pc = "returned"
       /\ Len(ev_request) = 1
       /\ ev_request[1].body = ev_args.body.value

C10_Witness ==
    /\ ev_pc = "returned"
    /\ ev_op = "patch"
    /\ ev_args.body = DictObj(EmptyDict)
    /\ ev_args.summary # None /\ ev_args.start = NaiveDateTime
    /\ ev_args.attendees # NoneObj
    /\ ev_request[1].body = EmptyDict

\* A timezone-naive timestamp was passed as time_min or time_max to list,
\* list_all or instances of the events client.
NaiveListArg ==
    /\ la_pc # "idle" /\ resource = "events"
    /\ time_min = NaiveDateTime \/ time_max = NaiveDateTime

\* A timezone-naive timestamp was passed as start or end to create or patch.
NaiveEventArg ==
    /\ ev_pc # "idle"
    /\ ev_args.start = NaiveDateTime \/ ev_args.end = NaiveDateTime

\* The list call has sent nothing and can only have ended by ValueError.
ListRejected ==
    /\ la_pc \in {"call", "loop", "raised"}
    /\ la_pc = "raised" => la_error = "ValueError"
    /\ nreq = 0

\* The create/patch call has sent nothing and can only have ended by ValueError.
EventRejected ==
    /\ ev_pc \in {"call", "raised"}
    /\ ev_pc = "raised" => ev_error = "ValueError"
    /\ ev_request = <<>>

\* C11 (as claimed): a naive start/end (create, patch) or time_min/time_max
\* (list, list_all, instances) ends the call with ValueError and no request
\* is sent, whatever the other arguments are.
C11_NaiveTimeRejectedAlways ==
    /\ NaiveListArg => ListRejected
    /\ NaiveEventArg => EventRejected

\* C11 (amended): the same, except that create and patch given a body
\* override do not look at start and end.
C11_NaiveTimeRejected ==
    /\ NaiveListArg => ListRejected
    /\ (NaiveEventArg /\ ev_args.body = NoneObj) => EventRejected

C11_Witness ==
    /\ ev_pc = "raised" /\ ev_error = "ValueError"
    /\ ev_op = "patch"
    /\ ev_args.body = NoneObj
    /\ ev_args.start = AwareDateTime /\ ev_args.end = NaiveDateTime
    /\ ev_args.summary # None
    /\ ev_request = <<>>

\* C12: a freebusy query whose time_min or time_max (either or both) is
\* timezone-naive ends with ValueError, and no request is sent.
C12_FreeBusyNaiveRejected ==
    (/\ fb_pc # "idle"
     /\ fb_args.time_min = NaiveDateTime \/ fb_args.time_max = NaiveDateTime)
    => /\ fb_pc \in {"call", "raised"}
       /\ fb_pc = "raised" => fb_error = "ValueError"
       /\ fb_request = <<>>

C12_Witness ==
    /\ fb_pc = "raised" /\ fb_error = "ValueError"
    /\ fb_args.time_min = AwareDateTime /\ fb_args.time_max = NaiveDateTime
    /\ fb_request = <<>>

\* C13 (as claimed): every EventDateTime that passed validation has exactly
\* one of date and date_time set, and one with neither set fails validation.
C13_ExactlyOneOfDateAndDateTime ==
    /\ edt_pc \in {"valid", "converted"}
       => (edt_obj.date # None) # (edt_obj.date_time # NoneObj)
    /\ (edt_pc \notin {"idle", "call"} /\ edt_args.date = None
        /\ edt_args.date_time = NoneObj)
       => edt_pc = "raised" /\ edt_error = "ValidationError"

\* An EventDateTime built with both fields passed validation and converts to
\* a dict that carries both date and dateTime.
C13_BothSetAccepted ==
    /\ edt_pc = "converted"
    /\ edt_obj.date # None /\ edt_obj.date_time # NoneObj
    /\ {"date", "dateTime"} \subseteq DOMAIN edt_dict

\* What the service said about the calendars, {} when it said nothing.
ReportedCalendars == Get(fb_result, "calendars", EmptyDict)

\* C14: a query with aware bounds returns whatever the service reports:
\* the mapping has exactly the calendar ids of the response, each with its
\* own busy list (empty when none was given) and its own errors field; the
\* calendars the service omitted are absent.
C14_PartialErrorsDoNotFail ==
    (/\ fb_pc \notin {"idle", "call"}
     /\ fb_args.time_min = AwareDateTime /\ fb_args.time_max = AwareDateTime)
    => /\ fb_pc = "returned" /\ fb_error = None
       /\ DOMAIN fb_ret.calendars = DOMAIN ReportedCalendars
       /\ \A c \in DOMAIN ReportedCalendars :
             LET e == ReportedCalendars[c]
                 b == Get(e, "busy", <<>>)
             IN  /\ Len(fb_ret.calendars[c].busy) = Len(b)
                 /\ \A i \in 1..Len(b) :
                       /\ fb_ret.calendars[c].busy[i].start = b[i].start
                       /\ fb_ret.calendars[c].busy[i].end = b[i].end
                 /\ fb_ret.calendars[c].errors =
                       (IF "errors" \in DOMAIN e THEN ListObj(e["errors"]) ELSE NoneObj)

\* Asked about cal1 and cal2, the service reports errors for cal1 and leaves
\* cal2 out: the call returns cal1 with no busy period and its errors.
C14_Witness ==
    /\ fb_pc = "returned"
    /\ fb_args.calendar_ids = <<"cal1", "cal2">>
    /\ DOMAIN ReportedCalendars = {"cal1"}
    /\ DOMAIN ReportedCalendars["cal1"] = {"errors"}
    /\ DOMAIN fb_ret.calendars = {"cal1"}
    /\ fb_ret.calendars["cal1"].busy = <<>>
    /\ fb_ret.calendars["cal1"].errors = ListObj(<<RawError>>)

\* C15: a response without the items field is an empty page, not an error:
\* list and instances return the empty sequence; list_all adds nothing for
\* that page, keeps that response's cursor, goes on exactly when the cursor
\* is non-empty, and sends the cursor with its next request.
C15_MissingItemsIsEmptyPage ==
    [][/\ (nreq' = nreq + 1 /\ "items" \notin DOMAIN result') =>
             /\ la_error' = None
             /\ op \in {"list", "instances"} =>
                   la_pc' = "returned" /\ list_ret'.items = <<>>
             /\ op = "list_all" =>
                   /\ all_events' = all_events
                   /\ page_token' = Get(result', "nextPageToken", None)
                   /\ IF NoCursor(result')
                      THEN la_pc' = "returned" /\ list_ret'.items = all_events
                      ELSE la_pc' = "loop"
       /\ (op = "list_all" /\ nreq' = nreq + 1 /\ nreq > 0
           /\ "items" \notin DOMAIN result) =>
             /\ "pageToken" \in DOMAIN kwargs'
             /\ kwargs'["pageToken"] = result["nextPageToken"]]_vars

\* list_all got a first page with an item, then a page without items that
\* carries a cursor, and is about to ask for the third page.
C15_Witness ==
    /\ op = "list_all"
    /\ la_pc = "loop"
    /\ nreq = 2
    /\ DOMAIN result = {"nextPageToken"}
    /\ page_token = result["nextPageToken"] /\ page_token = "p3"
    /\ Len(all_events) = 1

\* C16: the fallback is entered only when needed.  A step that reads the
\* app-registration file, or makes the refresh call of the fallback, starts
\* from a credential that is not usable and has a refresh token, and it is
\* the caller's only refresh call; a caller whose credential is usable after
\* the primary path goes straight to the return, reading and refreshing
\* nothing.
C16_FallbackOnlyWhenNeeded ==
    [][\A p \in Callers :
          /\ credReads'[p] # credReads[p] =>
                /\ ~valid(creds[p]) /\ creds[p].refresh_token # None
                /\ credReads[p] = 0
          /\ (refreshCalls'[p] # refreshCalls[p] /\ site[p] # "primary") =>
                /\ ~valid(creds[p]) /\ creds[p].refresh_token # None
                /\ credReads[p] = 1
                /\ refreshCalls[p] = 0
          /\ (pc[p] = "check_fallback" /\ valid(creds[p]) /\ pc'[p] # pc[p]) =>
                pc'[p] = "return"
          /\ (pc[p] \in {"check_fallback", "return"} /\ valid(creds[p])) =>
                /\ credReads'[p] = credReads[p]
                /\ refreshCalls'[p] = refreshCalls[p]]_vars

\* The fallback was needed and taken: no access token in the file, a refresh
\* token, one read of the app-registration file, one successful refresh.
C16_Witness ==
    /\ pc[1] = "returned"
    /\ ~HadToken(1) /\ HadRefreshToken(1)
    /\ credReads[1] = 1 /\ refreshCalls[1] = 1 /\ lastRefresh[1] = "ok"
    /\ site[1] = "fallback"

\* The convenience fields the caller supplied (time_zone is not a field of
\* the body: it only qualifies start and end).
SuppliedFields(a) ==
    (IF a.summary # None THEN {"summary"} ELSE {})
    \cup (IF a.description # None THEN {"description"} ELSE {})
    \cup (IF a.location # None THEN {"location"} ELSE {})
    \cup (IF a.start # NoneObj THEN {"start"} ELSE {})
    \cup (IF a.end # NoneObj THEN {"end"} ELSE {})
    \cup (IF a.attendees # NoneObj THEN {"attendees"} ELSE {})
    \cup (IF a.recurrence # NoneObj THEN {"recurrence"} ELSE {})

\* C17: without a body override, the body that create or patch sends has a
\* key for exactly the convenience fields that were supplied; every omitted
\* field is absent.
C17_OnlySuppliedFieldsSent ==
    (ev_pc = "returned" /\ ev_args.body = NoneObj)
    => /\ Len(ev_request) = 1
       /\ DOMAIN ev_request[1].body = SuppliedFields(ev_args)
       /\ "summary" \in DOMAIN ev_request[1].body
             => ev_request[1].body["summary"] = ev_args.summary
       /\ "description" \in DOMAIN ev_request[1].body
             => ev_request[1].body["description"] = ev_args.description
       /\ "location" \in DOMAIN ev_request[1].body
             => ev_request[1].body["location"] = ev_args.location
       /\ "recurrence" \in DOMAIN ev_request[1].body
             => ev_request[1].body["recurrence"] = ev_args.recurrence.value

\* A patch with a summary and a description only sends those two.
C17_Witness ==
    /\ ev_pc = "returned"
    /\ ev_op = "patch"
    /\ ev_args.body = NoneObj
    /\ SuppliedFields(ev_args) = {"summary", "description"}
    /\ ev_args.time_zone # None
    /\ ev_request[1].body = [summary |-> "Title", description |-> "Text"]

\* C18: without a body override, the attendees sent by create or patch are
\* the supplied list, element by element in the same order: a bare address
\* string as {email: address}, a structured record unchanged.
C18_AttendeesNormalized ==
    (ev_pc = "returned" /\ ev_args.body = NoneObj /\ ev_args.attendees # NoneObj)
    => LET given == ev_args.attendees.value
           sent == ev_request[1].body["attendees"]
       IN  /\ Len(sent) = Len(given)
           /\ \A i \in 1..Len(given) :
                 IF given[i].kind = "str"
                 THEN /\ DOMAIN sent[i] = {"email"}
                      /\ sent[i]["email"] = given[i].value
                 ELSE /\ DOMAIN sent[i] = DOMAIN given[i].value
                      /\ \A k \in DOMAIN sent[i] : sent[i][k] = given[i].value[k]

C18_Witness ==
    /\ ev_pc = "returned"
    /\ ev_op = "create"
    /\ ev_args.body = NoneObj
    /\ ev_args.attendees = ListObj(<<AttendeeDict, AttendeeStr>>)
    /\ ev_request[1].body["attendees"][1] = AttendeeDict.value
    /\ ev_request[1].body["attendees"][2] = [email |-> AttendeeStr.value]

\* The caller's credential was rebuilt in the fallback from the identity
\* `info`, the refresh token of the token file and the default scope, and
\* the refresh was retried with it; after a successful retry the token file
\* is written before the call returns.
FallbackUses(p, info) ==
    /\ creds[p].client_id = Get(info, "client_id", None)
    /\ creds[p].client_secret = Get(info, "client_secret", None)
    /\ creds[p].token_uri = Get(info, "token_uri", DefaultTokenUri)
    /\ creds[p].refresh_token = Get(token_data[p], "refresh_token", None)
    /\ creds[p].scopes = SCOPES
    /\ pc[p] # "refresh" => refreshCalls[p] = 1
    /\ pc[p] \in {"return", "returned"} =>
          /\ lastRefresh[p] = "ok"
          /\ writes[p] = 1
          /\ Persisted(p)
          /\ tokenFile.mode = "0600"

\* C19 (as claimed): in the fallback the identity is the "installed" entry
\* whenever that entry is present, and the "web" entry only otherwise.
C19_InstalledWheneverPresent ==
    \A p \in Callers :
        site[p] = "fallback" =>
            FallbackUses(p, IF "installed" \in DOMAIN credFile.content
                            THEN credFile.content["installed"]
                            ELSE Get(credFile.content, "web", EmptyDict))

\* C19 (amended): the identity is the "installed" entry when it is present
\* and not empty, and the "web" entry otherwise.
C19_InstalledFirstThenWeb ==
    \A p \in Callers :
        site[p] = "fallback" =>
            FallbackUses(p, IF /\ "installed" \in DOMAIN credFile.content
                               /\ DOMAIN credFile.content["installed"] # {}
                            THEN credFile.content["installed"]
                            ELSE Get(credFile.content, "web", EmptyDict))

\* Both entries carry a full identity; the fallback took "installed",
\* refreshed and persisted.
C19_Witness ==
    /\ pc[1] = "returned"
    /\ site[1] = "fallback"
    /\ DOMAIN credFile.content = {"installed", "web"}
    /\ DOMAIN credFile.content["installed"] = ClientInfoKeys
    /\ DOMAIN credFile.content["web"] = ClientInfoKeys
    /\ creds[1].client_id = "installed_client_id"
    /\ creds[1].refresh_token = "R1"
    /\ Persisted(1)

\* C20 (as claimed, its first half): two concurrent callers that both read
\* an expired access token with a refresh token both perform a refresh.
C20_BothRefreshExpiredToken ==
    (\A p \in Callers : Done(p) /\ HadToken(p) /\ stale /\ HadRefreshToken(p))
    => \A p \in Callers : refreshCalls[p] >= 1

\* The lost update, where a refresh does happen (no access token in the
\* file, identity from the app-registration file): caller 1 was issued T1
\* first, caller 2 was issued T2 later and wrote it, and the file finally
\* holds T1.
C20_LostUpdate ==
    /\ \A p \in Callers : pc[p] = "returned" /\ lastRefresh[p] = "ok" /\ writes[p] = 1
    /\ creds[1].token = IssuedToken(1)
    /\ creds[2].token = IssuedToken(2)
    /\ issued = 2
    /\ tokenFile.content["token"] = IssuedToken(1)

\* The token file holds an access token that a refresh of this run issued.
HoldsRefreshedToken ==
    /\ tokenFile.exists
    /\ "token" \in DOMAIN tokenFile.content
    /\ \E n \in 1..issued : tokenFile.content["token"] = IssuedToken(n)

\* C21 (as claimed): whenever the token file contains the refreshed token,
\* during _save_token and after it, its mode is 0600, whatever the mode was
\* before the write.
C21_RefreshedTokenOwnerOnly ==
    HoldsRefreshedToken => tokenFile.mode = "0600"

\* Between write_text and chmod: the refreshed token is in a file that still
\* has the mode it had before the write.
C21_WrittenBeforeChmod ==
    /\ pc[1] = "chmod"
    /\ lastRefresh[1] = "ok" /\ writes[1] = 1
    /\ tokenFile.content["token"] = creds[1].token
    /\ creds[1].token = IssuedToken(1)
    /\ tokenFile.mode = "0644"

====
